---- MODULE Spec2Model ----
(***************************************************************************)
(* Model of guess_the_country_app.py: a Streamlit script that is run from  *)
(* top to bottom once per user interaction.  The persistent state is       *)
(* st.session_state; every action below is one complete script run (with   *)
(* the st.rerun() that "Play Again" triggers included), for one clicked    *)
(* button.                                                                 *)
(*                                                                         *)
(* Text on which the script computes (country names, regions, guesses) is  *)
(* a sequence of one-character strings, so that strip() and lower() are    *)
(* modelled by what they do.                                               *)
(***************************************************************************)
EXTENDS Integers, Sequences, FiniteSets, TLC

VARIABLES
    game_started,      \* st.session_state.game_started
    points,            \* st.session_state.points
    attempts,          \* st.session_state.attempts
    previous_hints,    \* st.session_state.previous_hints
    answers,           \* st.session_state.answers
    asked_questions,   \* st.session_state.asked_questions
    leaderboard,       \* st.session_state.leaderboard
    secret,            \* st.session_state.secret (key absent / None / dict)
    replay_requested,  \* st.session_state.replay_requested
    outcome,           \* history: the terminal message of the current round
    submitted,         \* history: the best score each player has submitted
    evicted            \* history: the players the cut to 5 has removed

vars == <<game_started, points, attempts, previous_hints, answers,
          asked_questions, leaderboard, secret, replay_requested, outcome,
          submitted, evicted>>

(***************************************************************************)
(* Program constants.                                                      *)
(***************************************************************************)
InitialPoints == 100
QuestionCost == 2
WrongGuessCost == 20
MaxWrongGuesses == 5
LeaderboardSize == 5
SmallLimit == 1000000
MediumLimit == 30000000

(***************************************************************************)
(* Bounds of the model.  The code lets points fall and attempts grow       *)
(* without limit (asks and guesses are processed after a round has ended), *)
(* so the actions are cut off at these values.                             *)
(***************************************************************************)
MaxDebt == 20
MaxAttempts == 6
\* SpecBoard submits scores at the BoardLevels highest point levels a session
\* of guesses passes through (100, 80, ...).
BoardLevels == 2

(***************************************************************************)
(* Text helpers: str.lower() and str.strip().                              *)
(***************************************************************************)
UpperCase == <<"A","B","C","D","E","F","G","H","I","J","K","L","M",
               "N","O","P","Q","R","S","T","U","V","W","X","Y","Z">>
LowerCase == <<"a","b","c","d","e","f","g","h","i","j","k","l","m",
               "n","o","p","q","r","s","t","u","v","w","x","y","z">>

LowerChar(ch) ==
    IF \E i \in 1..Len(UpperCase) : UpperCase[i] = ch
    THEN LowerCase[CHOOSE i \in 1..Len(UpperCase) : UpperCase[i] = ch]
    ELSE ch

Lower(t) == [i \in 1..Len(t) |-> LowerChar(t[i])]

IsSpace(ch) == ch \in {" ", "\t", "\n"}

RECURSIVE LStrip(_)
LStrip(t) == IF t # <<>> /\ IsSpace(Head(t)) THEN LStrip(Tail(t)) ELSE t

RECURSIVE RStrip(_)
RStrip(t) ==
    IF t # <<>> /\ IsSpace(t[Len(t)]) THEN RStrip(SubSeq(t, 1, Len(t) - 1)) ELSE t

Strip(t) == RStrip(LStrip(t))

(***************************************************************************)
(* The country catalog (countries.json, read by load_data).  An entry is a *)
(* mapping whose optional keys may be missing.  This catalog holds no      *)
(* country below one million inhabitants.                                  *)
(***************************************************************************)
raw_data == <<
    [ name       |-> <<"I","t","a","l","y">>,
      region     |-> <<"E","u","r","o","p","e">>,
      population |-> 59000000,
      capital    |-> << <<"Rome">> >>,
      borders    |-> <<"AUT","FRA","SMR","SVN","CHE","VAT">>,
      landlocked |-> FALSE,
      unMember   |-> TRUE,
      fifa       |-> <<"ITA">>,
      cca2       |-> <<"IT">>,
      languages  |-> << <<"Italian">> >> ],
    [ name       |-> <<"C","h","a","d">>,
      region     |-> <<"A","f","r","i","c","a">>,
      population |-> 16000000,
      capital    |-> << <<"N'Djamena">> >>,
      borders    |-> <<"CMR","CAF","LBY","NER","NGA","SDN">>,
      unMember   |-> TRUE,
      cca2       |-> <<"TD">> ]
>>

Difficulties == {"easy", "medium", "hard"}

\* dict.get(key, default)
Get(entry, key, default) == IF key \in DOMAIN entry THEN entry[key] ELSE default

classify_population(pop) ==
    IF pop < SmallLimit THEN "small"
    ELSE IF pop < MediumLimit THEN "medium"
    ELSE "large"

target(difficulty) ==
    CASE difficulty = "easy"   -> "large"
      [] difficulty = "medium" -> "medium"
      [] difficulty = "hard"   -> "small"

\* A selection that falls back on the whole catalog (no filter).
get_any_country(difficulty) == raw_data

get_filtered_country_by_difficulty(difficulty) ==
    SelectSeq(raw_data,
              LAMBDA c : classify_population(Get(c, "population", 0)) = target(difficulty))

(***************************************************************************)
(* The content generator.  A response is a transport or parse failure, or  *)
(* a parsed JSON value: a mapping (with its keys) or some other value.     *)
(***************************************************************************)
EmptyCulture == [food |-> <<>>, landmark |-> <<>>, festival |-> <<>>]

GoodCulture == [food     |-> <<"f1","f2","f3">>,
                landmark |-> <<"l1","l2","l3">>,
                festival |-> <<"e1","e2","e3">>]

CultureResponses == {
    [kind |-> "error"],
    [kind |-> "json", mapping |-> TRUE,  value |-> GoodCulture],
    [kind |-> "json", mapping |-> FALSE, value |-> <<>>] }

generate_country_info_with_ai(response) ==
    IF response.kind = "error"
    THEN [mapping |-> TRUE, value |-> EmptyCulture]
    ELSE [mapping |-> response.mapping, value |-> response.value]

Hints == {"h1", "h2"}

HintResponses == {[kind |-> "error"]} \cup {[kind |-> "hint", hint |-> h] : h \in Hints}

(***************************************************************************)
(* Session state as one value, so that a script run is a composition of    *)
(* its blocks.  halt records that the run has ended (st.stop() or an       *)
(* uncaught exception): the blocks after it do nothing.                    *)
(***************************************************************************)
NoSecret == [tag |-> "absent"]
NoneSecret == [tag |-> "None"]
DictSecret(d) == [tag |-> "dict", v |-> d]

Session == [game_started     |-> game_started,
            points           |-> points,
            attempts         |-> attempts,
            previous_hints   |-> previous_hints,
            answers          |-> answers,
            asked_questions  |-> asked_questions,
            leaderboard      |-> leaderboard,
            secret           |-> secret,
            replay_requested |-> replay_requested,
            outcome          |-> outcome,
            halt             |-> FALSE]

Halt(s) == [s EXCEPT !.halt = TRUE]

(***************************************************************************)
(* setup_new_country.  random.choice raises on an empty list and the dict  *)
(* display raises when culture is no mapping; both end the run before      *)
(* st.session_state.secret is assigned.                                    *)
(***************************************************************************)
setup_new_country(s, difficulty, pick, response) ==
    LET filtered == get_filtered_country_by_difficulty(difficulty) IN
    IF filtered = <<>> THEN Halt(s)
    ELSE
      LET entry == filtered[pick]
          languages == Get(entry, "languages", <<>>)
          base == [ name       |-> entry.name,
                    region     |-> Get(entry, "region", <<"U","n","k","n","o","w","n">>),
                    population |-> classify_population(Get(entry, "population", 0)),
                    capital    |-> Get(entry, "capital", << <<"Unknown">> >>)[1],
                    coastline  |-> ~Get(entry, "landlocked", TRUE),
                    neighbors  |-> Len(Get(entry, "borders", <<>>)),
                    un         |-> Get(entry, "unMember", FALSE),
                    language   |-> IF languages # <<>> THEN languages[1] ELSE <<"Unknown">>,
                    fifa       |-> Get(entry, "fifa", <<"Unknown">>),
                    cca2       |-> Get(entry, "cca2", <<"XX">>) ]
          culture == generate_country_info_with_ai(response)
      IN IF ~culture.mapping THEN Halt(s)
         ELSE [s EXCEPT !.secret = DictSecret(culture.value @@ base)]

\* The indices random.choice can draw for a difficulty (0: nothing to draw).
Picks(difficulty) ==
    IF get_filtered_country_by_difficulty(difficulty) = <<>> THEN {0}
    ELSE 1..Len(get_filtered_country_by_difficulty(difficulty))

(***************************************************************************)
(* Lines 167-174: the "Start Game" button, or a pending replay request.    *)
(***************************************************************************)
StartBlock(s, start, difficulty, pick, response) ==
    IF s.halt \/ ~(start \/ s.replay_requested) THEN s
    ELSE
      LET s1 == [s EXCEPT !.replay_requested = FALSE]
          s2 == setup_new_country(s1, difficulty, pick, response)
      IN IF s2.halt THEN s2
         ELSE [s2 EXCEPT !.answers = <<>>,
                         !.asked_questions = <<>>,
                         !.previous_hints = <<>>,
                         !.game_started = TRUE,
                         !.outcome = "IN_PROGRESS"]

(***************************************************************************)
(* Lines 178-184: the out-of-points check, which ends the run.  The        *)
(* message reads secret['name'] before the flag is cleared.                *)
(***************************************************************************)
OutOfPointsBlock(s) ==
    IF s.halt \/ ~s.game_started \/ s.points > 0 THEN s
    ELSE IF s.secret.tag # "dict" THEN Halt(s)
    ELSE Halt([s EXCEPT !.game_started = FALSE, !.outcome = "LOST"])

(***************************************************************************)
(* Lines 186-195: q_map, the eight questions in catalog order, each a      *)
(* function of the secret.  An answer is a sequence of text pieces.        *)
(***************************************************************************)
QEurope == "Is it in Europe?"
QPopulation == "Is its population small, medium, or large?"
QCoastline == "Does it have a coastline?"
QNeighbors == "Does it have more than 3 neighboring countries?"
QUnMember == "Is it a UN member?"
QCapital == "What is the country's capital city?"
QFifa == "What is the country's FIFA code?"
QFlag == "What is the flag?"

Questions == <<QEurope, QPopulation, QCoastline, QNeighbors,
               QUnMember, QCapital, QFifa, QFlag>>

NeighborThreshold == 3

YesNo(b) == IF b THEN <<"Yes">> ELSE <<"No">>

q_map(q, c) ==
    CASE q = QEurope     -> IF Lower(c.region) # <<"e","u","r","o","p","e">>
                            THEN <<"No, it's in ">> \o c.region
                            ELSE <<"Yes, it's in Europe">>
      [] q = QPopulation -> <<c.population>>
      [] q = QCoastline  -> YesNo(c.coastline)
      [] q = QNeighbors  -> YesNo(c.neighbors > NeighborThreshold)
      [] q = QUnMember   -> YesNo(c.un)
      [] q = QCapital    -> c.capital
      [] q = QFifa       -> c.fifa
      [] q = QFlag       -> <<"Here is the flag:">>

Range(seq) == {seq[i] : i \in 1..Len(seq)}

\* Line 197: the questions not yet asked, in catalog order.
available(s) == SelectSeq(Questions, LAMBDA q : q \notin Range(s.asked_questions))

\* Mutant of AskQuestion: the selection is looked up in the catalog (q_map)
\* instead of in the questions still available.
AskQuestionInCatalog(s, selected) ==
    IF selected \in Range(Questions)
    THEN IF s.secret.tag = "absent" \/ (s.secret.tag = "None" /\ selected # QFlag)
         THEN Halt(s)
         ELSE LET answer == IF s.secret.tag = "dict" THEN q_map(selected, s.secret.v)
                            ELSE <<"Here is the flag:">>
              IN [s EXCEPT !.answers = Append(@, <<selected, answer>>),
                           !.asked_questions = Append(@, selected),
                           !.points = @ - QuestionCost]
    ELSE s

(***************************************************************************)
(* Lines 207-214: the body of "Submit Question".  Reading the secret       *)
(* raises when the key is absent; every evaluator but the flag's raises on *)
(* a None secret.                                                          *)
(***************************************************************************)
AskQuestion(s, selected) ==
    IF selected \in Range(available(s))
    THEN IF s.secret.tag = "absent" \/ (s.secret.tag = "None" /\ selected # QFlag)
         THEN Halt(s)
         ELSE LET answer == IF s.secret.tag = "dict" THEN q_map(selected, s.secret.v)
                            ELSE <<"Here is the flag:">>
              IN [s EXCEPT !.answers = Append(@, <<selected, answer>>),
                           !.asked_questions = Append(@, selected),
                           !.points = @ - QuestionCost]
    ELSE s   \* st.warning: no longer available

\* Mutant of RequestHint: the hint is appended without the membership test.
RequestHintUnchecked(s, response) ==
    IF response.kind = "error" THEN s
    ELSE [s EXCEPT !.previous_hints = Append(@, response.hint)]

\* A hint request that makes up a hint when the generator fails.
RequestHintOrDefault(s, response) ==
    IF response.kind = "error" THEN [s EXCEPT !.previous_hints = Append(@, "h0")]
    ELSE IF response.hint \notin Range(s.previous_hints)
         THEN [s EXCEPT !.previous_hints = Append(@, response.hint)]
         ELSE s

(***************************************************************************)
(* Lines 284-296: the hint request after a wrong guess.                    *)
(***************************************************************************)
RequestHint(s, response) ==
    IF response.kind = "error" THEN s            \* "Could not fetch hint."
    ELSE IF response.hint \notin Range(s.previous_hints)
         THEN [s EXCEPT !.previous_hints = Append(@, response.hint)]
         ELSE s                                  \* "You've already seen this hint."

\* Line 227: the comparison of the guess with the secret's name.
GuessMatches(guess, name) == Lower(Strip(guess)) = Lower(name)

\* Lines 232-246: the summary reads the three cultural lists of the secret.
SummaryKeys == {"region", "capital", "language", "population", "fifa",
                "food", "landmark", "festival"}

\* Mutant of WrongGuess: the deduction uses the question's cost.
WrongGuessAtQuestionCost(s, response) ==
    LET s1 == [s EXCEPT !.attempts = @ + 1, !.points = @ - QuestionCost]
        s2 == IF s1.points <= 0
              THEN [s1 EXCEPT !.game_started = FALSE, !.outcome = "LOST"]
              ELSE s1
    IN IF s2.attempts >= MaxWrongGuesses
       THEN [s2 EXCEPT !.game_started = FALSE, !.outcome = "LOST"]
       ELSE RequestHint(s2, response)

(***************************************************************************)
(* Lines 248-296: the wrong-guess branch.                                  *)
(***************************************************************************)
WrongGuess(s, response) ==
    LET s1 == [s EXCEPT !.attempts = @ + 1, !.points = @ - WrongGuessCost]
        s2 == IF s1.points <= 0
              THEN [s1 EXCEPT !.game_started = FALSE, !.outcome = "LOST"]
              ELSE s1
    IN IF s2.attempts >= MaxWrongGuesses
       THEN [s2 EXCEPT !.game_started = FALSE, !.outcome = "LOST"]
       ELSE RequestHint(s2, response)

\* A "Submit Guess" that drops the secret once it has been guessed.
SubmitGuessDropsSecret(s, guess, response) ==
    IF s.secret.tag # "dict" THEN Halt(s)
    ELSE IF GuessMatches(guess, s.secret.v.name)
         THEN [s EXCEPT !.game_started = FALSE, !.outcome = "WON",
                        !.secret = NoneSecret]
         ELSE WrongGuess(s, response)

(***************************************************************************)
(* Lines 226-296: the body of "Submit Guess".                              *)
(***************************************************************************)
SubmitGuess(s, guess, response) ==
    IF s.secret.tag # "dict" THEN Halt(s)
    ELSE IF GuessMatches(guess, s.secret.v.name)
         THEN LET s1 == [s EXCEPT !.game_started = FALSE, !.outcome = "WON"]
              IN IF SummaryKeys \subseteq DOMAIN s.secret.v THEN s1 ELSE Halt(s1)
         ELSE WrongGuess(s, response)

(***************************************************************************)
(* Lines 206-299: the "Submit Question" block.  The guess input and the    *)
(* "Submit Guess" button are created inside this block, so a guess is      *)
(* processed only in a run in which "Submit Question" reports a click.     *)
(***************************************************************************)
QuestionBlock(s, ask, selected, guessed, guess, response) ==
    IF s.halt \/ ~ask THEN s
    ELSE LET s1 == AskQuestion(s, selected)
         IN IF s1.halt \/ ~guessed THEN s1
            ELSE SubmitGuess(s1, guess, response)

(***************************************************************************)
(* Line 320: sorted(..., key=score, reverse=True)[:5].  Python's sort is   *)
(* stable, also with reverse=True: entries of equal score keep their order.*)
(***************************************************************************)
InsertDesc(sorted, e) ==
    LET before == SelectSeq(sorted, LAMBDA x : x[2] >= e[2])
        after  == SelectSeq(sorted, LAMBDA x : x[2] < e[2])
    IN before \o <<e>> \o after

RECURSIVE SortDesc(_)
SortDesc(board) ==
    IF board = <<>> THEN <<>>
    ELSE InsertDesc(SortDesc(SubSeq(board, 1, Len(board) - 1)), board[Len(board)])

\* A board that keeps every entry (no [:5]).
TruncateNever(board) == board

Truncate(board) ==
    IF Len(board) <= LeaderboardSize THEN board ELSE SubSeq(board, 1, LeaderboardSize)

Max(S) == CHOOSE x \in S : \A y \in S : y <= x

\* "Submit Score" that stores the latest score of a player, better or not.
SubmitScoreLatest(s, player) ==
    LET others == SelectSeq(s.leaderboard, LAMBDA e : e[1] # player)
        updated == Append(others, <<player, s.points>>)
    IN [s EXCEPT !.leaderboard = Truncate(SortDesc(updated))]

\* "Submit Score" that replaces the stored entry on a tie as well (>= for >).
SubmitScoreOnTie(s, player) ==
    LET current_score == s.points
        existing == SelectSeq(s.leaderboard, LAMBDA e : e[1] = player)
        others == SelectSeq(s.leaderboard, LAMBDA e : e[1] # player)
        updated ==
            IF existing # <<>>
            THEN IF current_score >= Max({existing[i][2] : i \in 1..Len(existing)})
                 THEN Append(others, <<player, current_score>>)
                 ELSE s.leaderboard
            ELSE Append(s.leaderboard, <<player, current_score>>)
    IN [s EXCEPT !.leaderboard = Truncate(SortDesc(updated))]

(***************************************************************************)
(* Lines 306-320: the body of "Submit Score".                              *)
(***************************************************************************)
SubmitScore(s, player) ==
    LET current_score == s.points
        existing == SelectSeq(s.leaderboard, LAMBDA e : e[1] = player)
        others == SelectSeq(s.leaderboard, LAMBDA e : e[1] # player)
        updated ==
            IF existing # <<>>
            THEN IF current_score > Max({existing[i][2] : i \in 1..Len(existing)})
                 THEN Append(others, <<player, current_score>>)
                 ELSE s.leaderboard
            ELSE Append(s.leaderboard, <<player, current_score>>)
    IN [s EXCEPT !.leaderboard = Truncate(SortDesc(updated))]

\* Lines 302-305: the leaderboard form is shown once a round has ended.
ScoreBlock(s, score, player) ==
    IF s.halt \/ s.game_started \/ s.secret.tag = "absent" THEN s
    ELSE IF score /\ player # "" THEN SubmitScore(s, player)
    ELSE s

\* A "Play Again" whose reset leaves the wrong-guess count alone.
PlayAgainKeepsAttempts(s) ==
    LET s1 == IF s.points <= 0 \/ s.attempts >= MaxWrongGuesses
              THEN [s EXCEPT !.points = InitialPoints]
              ELSE s
    IN [s1 EXCEPT !.secret = NoneSecret,
                  !.replay_requested = TRUE,
                  !.game_started = FALSE,
                  !.outcome = "NOT_STARTED"]

(***************************************************************************)
(* Lines 323-333: "Play Again", up to its st.rerun().                      *)
(***************************************************************************)
PlayAgain(s) ==
    LET s1 == IF s.points <= 0 \/ s.attempts >= MaxWrongGuesses
              THEN [s EXCEPT !.points = InitialPoints, !.attempts = 0]
              ELSE s
    IN [s1 EXCEPT !.secret = NoneSecret,
                  !.replay_requested = TRUE,
                  !.game_started = FALSE,
                  !.outcome = "NOT_STARTED"]

(***************************************************************************)
(* One run of the script for the widget values w and the draws of its      *)
(* collaborators (the random pick, the generator's responses).             *)
(***************************************************************************)
Script(s, w) ==
    LET s1 == StartBlock(s, w.start, w.difficulty, w.pick, w.culture)
        s2 == OutOfPointsBlock(s1)
        s3 == QuestionBlock(s2, w.ask, w.selected, w.guessed, w.guess, w.hint)
        s4 == ScoreBlock(s3, w.score, w.player)
    IN IF s4.halt \/ ~w.again THEN s4 ELSE PlayAgain(s4)

NoSelection == "<None>"

NoClick(difficulty, pick, culture) ==
    [start |-> FALSE, difficulty |-> difficulty, pick |-> pick, culture |-> culture,
     ask |-> FALSE, selected |-> NoSelection, guessed |-> FALSE, guess |-> <<>>,
     hint |-> [kind |-> "error"], score |-> FALSE, player |-> "", again |-> FALSE]

\* st.rerun() (line 333) runs the script again at once, with no button clicked.
Run(w) ==
    LET s == Script(Session, w)
    IN IF w.again /\ s.replay_requested /\ ~s.halt
       THEN Script(s, NoClick(w.difficulty, w.pick, w.culture))
       ELSE s

Commit(s) ==
    /\ game_started' = s.game_started
    /\ points' = s.points
    /\ attempts' = s.attempts
    /\ previous_hints' = s.previous_hints
    /\ answers' = s.answers
    /\ asked_questions' = s.asked_questions
    /\ leaderboard' = s.leaderboard
    /\ secret' = s.secret
    /\ replay_requested' = s.replay_requested
    /\ outcome' = s.outcome

WithinBounds(s) == s.points >= -MaxDebt /\ s.attempts <= MaxAttempts

(***************************************************************************)
(* The inputs of the runs.                                                 *)
(***************************************************************************)
UnknownQuestion == "Is it an island?"

\* The selection offered to "Submit Question": the first question still
\* available, the question asked last, a question that is not in the
\* catalog, and the empty selection.
Selections ==
    (IF available(Session) = <<>> THEN {} ELSE {Head(available(Session))})
    \cup (IF asked_questions = <<>> THEN {} ELSE {asked_questions[Len(asked_questions)]})
    \cup {UnknownQuestion, NoSelection}

\* The selections with which a guess is submitted in the same run.
GuessSelections ==
    (IF available(Session) = <<>> THEN {} ELSE {Head(available(Session))})
    \cup {NoSelection}

Padded(name) == <<" ">> \o Lower(name) \o <<" ", "\n">>

Guesses == {<<>>, Padded(raw_data[1].name), raw_data[2].name}

(***************************************************************************)
(* The actions: one script run per clicked button.                         *)
(***************************************************************************)
Init ==
    /\ game_started = FALSE
    /\ points = InitialPoints
    /\ attempts = 0
    /\ previous_hints = <<>>
    /\ answers = <<>>
    /\ asked_questions = <<>>
    /\ leaderboard = <<>>
    /\ secret = NoSecret
    /\ replay_requested = FALSE
    /\ outcome = "NOT_STARTED"
    /\ submitted = <<>>
    /\ evicted = {}

Quiet == NoClick("easy", 0, [kind |-> "error"])

\* "Submit Question" clicked with selection q, "Submit Guess" not clicked.
AskOnly(q) == [Quiet EXCEPT !.ask = TRUE, !.selected = q]

\* "Submit Guess" clicked with guess t (the generator answering a hint
\* request with h), in a run that also submits selection q.
AskAndGuess(q, t, h) ==
    [Quiet EXCEPT !.ask = TRUE, !.selected = q,
                  !.guessed = TRUE, !.guess = t, !.hint = h]

\* A guess with the empty selection: the run asks no question.
GuessOnly(t, h) == AskAndGuess(NoSelection, t, h)

ScoreOnly(player) == [Quiet EXCEPT !.score = TRUE, !.player = player]

StartClick(d, k, c) == [NoClick(d, k, c) EXCEPT !.start = TRUE]

AgainClick(d, k, c) == [NoClick(d, k, c) EXCEPT !.again = TRUE]

OnBoard == {leaderboard[i][1] : i \in 1..Len(leaderboard)}

\* Line 302: the leaderboard form is shown.
FormShown == ~game_started /\ secret.tag # "absent"

\* The history of the score submissions of a run with inputs w and result r:
\* a submission is one that line 305 lets pass.
History(w, r) ==
    /\ submitted' =
           IF w.score /\ w.player # "" /\ FormShown
           THEN (w.player :> IF w.player \in DOMAIN submitted /\ submitted[w.player] > points
                             THEN submitted[w.player]
                             ELSE points) @@ submitted
           ELSE submitted
    /\ evicted' = evicted \cup (OnBoard \ {r.leaderboard[i][1] : i \in 1..Len(r.leaderboard)})

\* Each action is the run for the inputs w of one widget.
\* A run without a click (a changed selection or text input).
Idle(w) == \E r \in {Run(w)} : WithinBounds(r) /\ Commit(r) /\ History(w, r)

\* "Start Game".
StartGame(w) == \E r \in {Run(w)} : WithinBounds(r) /\ Commit(r) /\ History(w, r)

\* "Submit Question".
Ask(w) == \E r \in {Run(w)} : WithinBounds(r) /\ Commit(r) /\ History(w, r)

\* "Submit Guess", in a run that submits a selection as well.
Guess(w) == \E r \in {Run(w)} : WithinBounds(r) /\ Commit(r) /\ History(w, r)

\* "Submit Score".
Score(w) == \E r \in {Run(w)} : WithinBounds(r) /\ Commit(r) /\ History(w, r)

\* "Play Again", and the run that st.rerun() starts.
Replay(w) == \E r \in {Run(w)} : WithinBounds(r) /\ Commit(r) /\ History(w, r)

IdleRun == Idle(Quiet)

StartGameRun(difficulties, cultures) ==
    \E d \in difficulties : \E k \in Picks(d) : \E c \in cultures :
        StartGame(StartClick(d, k, c))

SubmitQuestionRun == \E q \in Selections : Ask(AskOnly(q))

SubmitGuessRun(selections, hints) ==
    \E q \in selections : \E t \in Guesses : \E h \in hints :
        Guess(AskAndGuess(q, t, h))

SubmitScoreRun(players) == \E p \in players : Score(ScoreOnly(p))

PlayAgainRun(difficulties, cultures) ==
    \E d \in difficulties : \E k \in Picks(d) : \E c \in cultures :
        Replay(AgainClick(d, k, c))

(***************************************************************************)
(* Spec: the runs of the game (every button but "Submit Score", which      *)
(* writes the leaderboard only; SpecBoard has it).                         *)
(***************************************************************************)
GameCultures == {c \in CultureResponses : c.kind = "json"}

Next ==
    \/ IdleRun
    \/ StartGameRun(Difficulties, GameCultures)
    \/ SubmitQuestionRun
    \/ SubmitGuessRun(GuessSelections, HintResponses)
    \/ PlayAgainRun(Difficulties, GameCultures)

Spec == Init /\ [][Next]_vars

(***************************************************************************)
(* SpecBoard: the runs that fill the leaderboard.  Points move by guesses  *)
(* submitted with the empty selection and by "Play Again"; names are       *)
(* drawn in a fixed order of first use (the code treats all non-empty      *)
(* names alike): the empty name, every name on the board and the first     *)
(* name that is not on it.  A score is submitted at the highest            *)
(* BoardLevels point levels only.                                          *)
(***************************************************************************)
BoardNames == <<"ann", " ", "bob", "cy", "dee", "eve">>

BoardPlayers ==
    LET free == SelectSeq(BoardNames, LAMBDA n : n \notin OnBoard)
    IN {""} \cup OnBoard \cup (IF free = <<>> THEN {} ELSE {Head(free)})

BoardCultures == {c \in CultureResponses : c.kind = "json" /\ c.mapping}

NextBoard ==
    \/ StartGameRun({"easy"}, BoardCultures)
    \/ SubmitGuessRun({NoSelection}, {[kind |-> "error"]})
    \/ PlayAgainRun({"easy"}, BoardCultures)
    \/ (points > InitialPoints - BoardLevels * WrongGuessCost
           /\ SubmitScoreRun(BoardPlayers))

SpecBoard == Init /\ [][NextBoard]_vars

(***************************************************************************)
(* Properties of the game runs.                                            *)
(***************************************************************************)
NoDuplicates(seq) == \A i, j \in 1..Len(seq) : seq[i] = seq[j] => i = j

AskInputs == {AskOnly(q) : q \in Range(Questions) \cup {UnknownQuestion, NoSelection}}

GuessInputs ==
    {AskAndGuess(q, t, h) :
        q \in GuessSelections, t \in Guesses, h \in HintResponses}

\* C1: a wrong guess submitted while the round is in progress that leaves
\* points <= 0 or brings the wrong-guess count to 5 ends the round as LOST
\* and leaves the hint list as it was.
C1_LostGuessRequestsNoHint ==
    [][ ( /\ game_started
          /\ attempts' = attempts + 1
          /\ (points' <= 0 \/ attempts' = MaxWrongGuesses) )
        => ( /\ ~game_started'
             /\ outcome' = "LOST"
             /\ previous_hints' = previous_hints ) ]_vars

\* C2: in every reachable state the wrong-guess count is between 0 and 5.
C2_AttemptsAtMostFive == attempts \in 0..MaxWrongGuesses

\* C3: an ask for a question already asked in this round, for a question
\* outside the catalog, or with the empty selection leaves points, the asked
\* list and the answer list unchanged; the asked list never holds a question
\* twice and never more than the 8 catalog questions.
C3_RejectedAskChangesNothing ==
    /\ NoDuplicates(asked_questions)
    /\ Len(asked_questions) <= Len(Questions)
    /\ Range(asked_questions) \subseteq Range(Questions)
    /\ \A q \in Range(asked_questions) \cup {UnknownQuestion, NoSelection} :
           LET r == Run(AskOnly(q))
           IN /\ r.points = points
              /\ r.asked_questions = asked_questions
              /\ r.answers = answers

\* C3 witness: all eight questions have been asked, so every selection
\* (the empty one included) is one that must be rejected.
C3_Witness == Len(asked_questions) = Len(Questions) /\ game_started

\* C4: every run of "Submit Question" (with or without a guess) changes
\* points by exactly -2 per question it appends and -20 per wrong guess it
\* counts; it appends at most one (question, answer) pair, the selected one,
\* and counts at most one wrong guess; a matching guess counts none.  So the
\* points are 100 - 2k - 20w for the w wrong guesses counted and some k,
\* which in a round in progress is not below the number of questions asked.
C4_CostTable ==
    /\ \A w \in AskInputs \cup GuessInputs :
           LET r == Run(w)
               asked == Len(r.asked_questions) - Len(asked_questions)
               wrong == r.attempts - attempts
           IN /\ asked \in {0, 1}
              /\ wrong \in {0, 1}
              /\ r.points = points - QuestionCost * asked - WrongGuessCost * wrong
              /\ asked = 1 =>
                     /\ r.asked_questions = Append(asked_questions, w.selected)
                     /\ Len(r.answers) = Len(answers) + 1
                     /\ SubSeq(r.answers, 1, Len(answers)) = answers
                     /\ r.answers[Len(r.answers)][1] = w.selected
              /\ asked = 0 => r.answers = answers
              /\ ( /\ w.guessed
                   /\ secret.tag = "dict"
                   /\ GuessMatches(w.guess, secret.v.name) ) => wrong = 0
    /\ \E k \in 0..(InitialPoints + MaxDebt) :
           /\ points = InitialPoints - QuestionCost * k - WrongGuessCost * attempts
           /\ game_started => k >= Len(asked_questions)

\* C4 witness: three questions asked and one wrong guess made in the round
\* of a session that has spent nothing else: 100 - 3*2 - 20 = 74 points.
C4_Witness ==
    /\ game_started
    /\ Len(asked_questions) = 3
    /\ attempts = 1
    /\ points = 74

\* C5: at the end of no run is the round in progress with points <= 0.
C5_NoProgressWithoutPoints == game_started => points > 0

\* C6: a guess (submitted with the empty selection) while the round is in
\* progress that matches the secret's name after trimming and ignoring case
\* ends the round as WON and leaves points, wrong-guess count, asked list
\* and hint list unchanged; one that does not match does not end it as WON.
C6_CorrectGuessWins ==
    [][ \A t \in Guesses : \A h \in HintResponses :
          ( /\ game_started
            /\ secret.tag = "dict"
            /\ Guess(GuessOnly(t, h)) )
          => IF GuessMatches(t, secret.v.name)
             THEN /\ outcome' = "WON"
                  /\ ~game_started'
                  /\ UNCHANGED <<points, attempts, asked_questions, previous_hints>>
             ELSE outcome' # "WON" ]_vars

\* C7: "Play Again" after a round that ended LOST sets points to 100 and the
\* wrong-guess count to 0; after a round that ended WON it leaves both as
\* they were; the round it starts has an empty asked list, an empty hint
\* list and a secret.
C7_ReplayResetsOnlyAfterLoss ==
    [][ PlayAgainRun(Difficulties, GameCultures)
        => /\ outcome = "LOST" => (points' = InitialPoints /\ attempts' = 0)
           /\ outcome = "WON" => UNCHANGED <<points, attempts>>
           /\ (outcome \in {"WON", "LOST"} /\ game_started')
                 => /\ asked_questions' = <<>>
                    /\ previous_hints' = <<>>
                    /\ secret'.tag = "dict" ]_vars

\* C10: the hint list never holds a hint twice; a hint the generator returns
\* although it is in the list leaves the list unchanged; the list changes
\* only by growing by one hint in a run that counts a wrong guess, or by
\* being emptied.
C10_HintsUnique ==
    /\ [](NoDuplicates(previous_hints))
    /\ [](\A h \in Range(previous_hints) : \A q \in GuessSelections :
          \A t \in Guesses :
            Run(AskAndGuess(q, t, [kind |-> "hint", hint |-> h])).previous_hints
                = previous_hints)
    /\ [][ previous_hints' # previous_hints
           => \/ previous_hints' = <<>>
              \/ /\ attempts' = attempts + 1
                 /\ \E h \in Hints : previous_hints' = Append(previous_hints, h) ]_vars

\* C10 witness: both hints of the generator are in the list after two wrong
\* guesses, so whatever it returns next is a duplicate.
C10_Witness == Len(previous_hints) = 2 /\ attempts = 2 /\ game_started

(***************************************************************************)
(* Properties of the round start.                                          *)
(***************************************************************************)
CultureKeys == {"food", "landmark", "festival"}

CatalogKeys == {"name", "region", "population", "capital", "coastline",
                "neighbors", "un", "language", "fifa", "cca2"}

\* The JSON object {}: a mapping without the three keys.
EmptyObject == [kind |-> "json", mapping |-> TRUE, value |-> <<>>]

\* A run reaches the "Play Again" button unless the out-of-points check
\* (lines 181-184) stops it.
ReachesPlayAgain == ~(game_started /\ points <= 0)

\* C11: for every difficulty the filtered countries are exactly those whose
\* population bucket is the difficulty's; a round start that succeeds makes
\* the drawn one of them the secret; with no eligible country "Start Game"
\* ends the run with an error and leaves the flag, the secret, the outcome
\* and the round's lists as they were, and a run that handles "Play Again"
\* ends with an error, no round in progress and no secret.
C11_SelectionMatchesDifficulty ==
    \A d \in Difficulties : \A k \in Picks(d) : \A c \in CultureResponses :
        LET filtered == get_filtered_country_by_difficulty(d)
            rs == Run(StartClick(d, k, c))
            ra == Run(AgainClick(d, k, c))
        IN /\ \A i \in 1..Len(filtered) :
                  /\ \E j \in 1..Len(raw_data) : raw_data[j] = filtered[i]
                  /\ classify_population(Get(filtered[i], "population", 0)) = target(d)
           /\ \A j \in 1..Len(raw_data) :
                  classify_population(Get(raw_data[j], "population", 0)) = target(d)
                      => raw_data[j] \in Range(filtered)
           /\ (filtered # <<>> /\ generate_country_info_with_ai(c).mapping) =>
                  \A r \in {rs} \cup (IF ReachesPlayAgain THEN {ra} ELSE {}) :
                      /\ r.secret.tag = "dict"
                      /\ r.secret.v.name = filtered[k].name
                      /\ r.secret.v.population = target(d)
           /\ filtered = <<>> =>
                  /\ rs.halt
                  /\ rs.game_started = game_started
                  /\ rs.secret = secret
                  /\ rs.outcome = outcome
                  /\ rs.asked_questions = asked_questions
                  /\ rs.previous_hints = previous_hints
                  /\ ReachesPlayAgain =>
                         /\ ra.halt
                         /\ ~ra.game_started
                         /\ ra.secret = NoneSecret

\* C11 witness: a replay ended without a round and without a secret (its
\* round start failed), in a session that has played before.
C11_Witness ==
    /\ secret = NoneSecret
    /\ ~game_started
    /\ ~replay_requested
    /\ outcome = "NOT_STARTED"
    /\ asked_questions # <<>>

\* C12: a guess with empty text, submitted while the round is in progress,
\* changes neither points nor the wrong-guess count nor the hint list and
\* does not end the round.
C12_EmptyGuessIsNoOp ==
    (game_started /\ points > 0) =>
        \A h \in HintResponses :
            LET r == Run(GuessOnly(<<>>, h))
            IN /\ r.points = points
               /\ r.attempts = attempts
               /\ r.previous_hints = previous_hints
               /\ r.game_started
               /\ r.outcome = outcome

\* C13: for every response of the generator (a failure, a JSON object with
\* the three lists, a JSON object without them, a JSON value that is no
\* object) and every eligible country, "Start Game" completes: the run does
\* not end in setup_new_country, and the secret holds food, landmark and
\* festival and the catalog fields that a start with a well-formed response
\* gives it.
C13_GeneratorFailureContained ==
    \A d \in Difficulties : \A k \in Picks(d) :
      \A c \in CultureResponses \cup {EmptyObject} :
        get_filtered_country_by_difficulty(d) # <<>> =>
            LET s == [Session EXCEPT !.replay_requested = FALSE]
                r == setup_new_country(s, d, k, c)
                good == setup_new_country(s, d, k,
                            [kind |-> "json", mapping |-> TRUE, value |-> GoodCulture])
            IN /\ ~r.halt
               /\ r.secret.tag = "dict"
               /\ CultureKeys \subseteq DOMAIN r.secret.v
               /\ \A key \in CatalogKeys : r.secret.v[key] = good.secret.v[key]
               /\ Run(StartClick(d, k, c)).secret = r.secret

(***************************************************************************)
(* Properties of the leaderboard (SpecBoard).                              *)
(***************************************************************************)
Stored(board, player) ==
    LET i == CHOOSE i \in 1..Len(board) : board[i][1] = player
    IN board[i][2]

\* C8: in every reachable state the leaderboard has at most 5 entries, is
\* sorted by score in non-increasing order and holds each player name at
\* most once.
C8_LeaderboardShape ==
    /\ Len(leaderboard) <= LeaderboardSize
    /\ \A i, j \in 1..Len(leaderboard) :
           i < j => leaderboard[i][2] >= leaderboard[j][2]
    /\ NoDuplicates([i \in 1..Len(leaderboard) |-> leaderboard[i][1]])

\* C8 witness: a full board that holds the sixth name: it took the place of
\* an entry with a lower score, which the cut to 5 entries removed.
C8_Witness ==
    /\ Len(leaderboard) = LeaderboardSize
    /\ BoardNames[Len(BoardNames)] \in OnBoard
    /\ leaderboard[1][2] > leaderboard[LeaderboardSize][2]

\* C9: when a player who has an entry submits a score, the entry is replaced
\* by one with the new score if the new score is strictly greater than the
\* stored one (and the player keeps exactly one entry); with an equal or
\* lower score the whole leaderboard, entries and order, is unchanged.
C9_ReplaceOnlyIfGreater ==
    FormShown =>
        \A player \in OnBoard :
            LET r == Run(ScoreOnly(player))
                names == [i \in 1..Len(r.leaderboard) |-> r.leaderboard[i][1]]
            IN IF points > Stored(leaderboard, player)
               THEN /\ Len(SelectSeq(names, LAMBDA n : n = player)) = 1
                    /\ Stored(r.leaderboard, player) = points
                    /\ Len(r.leaderboard) = Len(leaderboard)
                    /\ \A other \in OnBoard \ {player} :
                           /\ other \in Range(names)
                           /\ Stored(r.leaderboard, other) = Stored(leaderboard, other)
               ELSE r.leaderboard = leaderboard

\* C9 witness: the form is shown with three players on the board: one whose
\* stored score is below the current points, and two who are tied at the
\* current points, the first of them ahead of the second.
C9_Witness ==
    /\ FormShown
    /\ \E player \in OnBoard : Stored(leaderboard, player) < points
    /\ \E i, j \in 1..Len(leaderboard) :
           /\ i < j
           /\ leaderboard[i][2] = points
           /\ leaderboard[j][2] = points

\* C14: a wrong guess in a round in progress whose hint request fails
\* leaves the hint list unchanged and does not end the run with an error;
\* the guess's 20 points and its wrong-guess count stay applied; the round
\* stays in progress unless the guess itself has ended it (points <= 0 or
\* five wrong guesses).
C14_HintFailureNotFatal ==
    (game_started /\ points > 0 /\ secret.tag = "dict") =>
        \A q \in GuessSelections : \A t \in Guesses :
            ~GuessMatches(t, secret.v.name) =>
                LET r == Run(AskAndGuess(q, t, [kind |-> "error"]))
                    asked == Len(r.asked_questions) - Len(asked_questions)
                IN /\ ~r.halt
                   /\ r.previous_hints = previous_hints
                   /\ r.attempts = attempts + 1
                   /\ r.points = points - WrongGuessCost - QuestionCost * asked
                   /\ (r.points > 0 /\ r.attempts < MaxWrongGuesses) =>
                          (r.game_started /\ r.outcome = "IN_PROGRESS")
                   /\ r.secret = secret

\* C14 witness: a round in progress after one wrong guess that has cost its
\* 20 points and brought no hint.
C14_Witness ==
    /\ game_started
    /\ attempts = 1
    /\ points = InitialPoints - WrongGuessCost
    /\ previous_hints = <<>>

\* The player names that are empty or hold blanks only.
BlankNames == {"", " "}

\* C15: "Submit Score" with a player name that is empty or blank leaves the
\* leaderboard unchanged.
C15_BlankNameIsNoOp ==
    FormShown => \A player \in BlankNames :
                     Run(ScoreOnly(player)).leaderboard = leaderboard

\* C16: while no round is in progress an ask or a guess changes none of
\* points, wrong-guess count, asked list, hint list and outcome; and the
\* outcome WON or LOST changes only in a run of "Start Game" or "Play Again".
C16_AskGuessOnlyInProgress ==
    /\ [](~game_started =>
            \A w \in AskInputs \cup GuessInputs :
                LET r == Run(w)
                IN /\ r.points = points
                   /\ r.attempts = attempts
                   /\ r.asked_questions = asked_questions
                   /\ r.previous_hints = previous_hints
                   /\ r.outcome = outcome)
    /\ [][ (outcome \in {"WON", "LOST"} /\ outcome' # outcome)
           => \/ StartGameRun(Difficulties, GameCultures)
              \/ PlayAgainRun(Difficulties, GameCultures) ]_vars

\* The round starts for which setup_new_country succeeds.
RoundStarts ==
    {x \in [d : Difficulties, k : 1..Len(raw_data), c : CultureResponses] :
        /\ x.k \in Picks(x.d)
        /\ get_filtered_country_by_difficulty(x.d) # <<>>
        /\ generate_country_info_with_ai(x.c).mapping}

\* C17: a round start after a round that ended LOST, by "Start Game" or by
\* "Play Again", begins the round with 100 points and no wrong guess; every
\* other round start begins it with the points the session had; no round
\* begins with points <= 0.
C17_StartAfterLossResets ==
    \A x \in RoundStarts :
        \A r \in {Run(StartClick(x.d, x.k, x.c))}
                 \cup (IF ReachesPlayAgain THEN {Run(AgainClick(x.d, x.k, x.c))} ELSE {}) :
            /\ outcome = "LOST" =>
                   /\ r.points = InitialPoints
                   /\ r.attempts = 0
                   /\ r.game_started
            /\ outcome # "LOST" => r.points = points
            /\ r.points > 0

\* C18: while a round is in progress the secret is a country; a run without
\* a click, an ask, a guess (matching or not, whatever the hint request
\* returns) and a score submission leave the secret as it is; the secret
\* changes only in a run of "Start Game" or "Play Again".
C18_SecretFixedDuringRound ==
    /\ [](game_started => secret.tag = "dict")
    /\ [](\A w \in AskInputs \cup GuessInputs \cup {Quiet}
                   \cup {ScoreOnly(player) : player \in Range(BoardNames) \cup {""}} :
            Run(w).secret = secret)
    /\ [][ secret' # secret
           => \/ StartGameRun(Difficulties, GameCultures)
              \/ PlayAgainRun(Difficulties, GameCultures) ]_vars

\* C18 witness: a round in progress in which a question has been asked and a
\* wrong guess has brought a hint.
C18_Witness ==
    /\ game_started
    /\ Len(asked_questions) >= 1
    /\ Len(previous_hints) >= 1

\* C19: in every reachable state points <= 100 - 20 * wrong-guess count, so
\* with five wrong guesses the points are <= 0; points grow only in a run of
\* "Play Again", and then to 100.
C19_PointsBoundedByGuesses ==
    /\ [](points <= InitialPoints - WrongGuessCost * attempts)
    /\ [](attempts >= MaxWrongGuesses => points <= 0)
    /\ [][ points' > points
           => /\ PlayAgainRun(Difficulties, GameCultures)
              /\ points' = InitialPoints
              /\ attempts' = 0 ]_vars

\* C19 witness: five wrong guesses and nothing else spent: the points are
\* exactly 100 - 20 * 5 = 0.
C19_Witness == attempts = MaxWrongGuesses /\ points = 0

\* C20: every player on the leaderboard has the best score that player has
\* submitted so far as the stored score, a player who was cut from the board
\* and has come back included; and the lowest score of a full leaderboard
\* never decreases (nor does a full leaderboard stop being full).
C20_StoredIsBestSubmitted ==
    /\ [](\A i \in 1..Len(leaderboard) :
            /\ leaderboard[i][1] \in DOMAIN submitted
            /\ leaderboard[i][2] = submitted[leaderboard[i][1]])
    /\ [][ Len(leaderboard) = LeaderboardSize
           => /\ Len(leaderboard') = LeaderboardSize
              /\ leaderboard'[LeaderboardSize][2] >= leaderboard[LeaderboardSize][2] ]_vars

\* C20 witness: a player who was cut from the board is on it again.
C20_Witness == \E player \in evicted : player \in OnBoard

====
